---- MODULE Spec2Model ----
(***************************************************************************)
(* A model of petroflow's WellBatch (petroflow/src/well_batch.py) and Well  *)
(* (well_logs/core/well.py).                                                *)
(*                                                                          *)
(* Part 1 models a batch dispatch: the per-well tasks that                  *)
(* inbatch_parallel runs on the thread pool, and the post-processing step   *)
(* WellBatch._filter_assemble that rebuilds the index and the wells array.  *)
(***************************************************************************)
EXTENDS Integers, Sequences, FiniteSets, TLC

\* ---------------------------------------------------------------- bounds
\* Largest number of wells a batch is created with.
MaxRoots == 3
\* Largest number of dispatches made on one batch.
MaxDispatch == 1
\* Largest number of tree-changing Well methods called on one tree.
MaxOps == 4
\* Largest number of segments a segment-level method returns for one segment.
MaxFan == 2
\* Largest number of WellSegments a tree holds.
MaxLeaves == 3
\* Largest n_crops passed to random_crop.
MaxCrops == 2
\* Length of the depth interval of the segment a Well is created with.
InitLength == 2
\* Largest absolute value of the level passed to iter_level.
MaxLevel == 3
\* Largest number of method calls on one Well when delegated methods are checked.
MaxDelegateOps == 2

VARIABLES
    index,      \* WellBatch.index: the ordered well identifiers
    wells,      \* WellBatch.wells: the array of Well objects (references into store)
    store,      \* the Well objects: what each reference of wells/futures points to
    futures,    \* one future per well of the running dispatch
    bpc,        \* "idle" or "running": whether a dispatch is in progress
    plan,       \* how the dispatched method behaves on each well (the dispatch's input)
    opKind,     \* "inplace": the method returns self; "copy": it returns a new Well
    outcome,    \* how the last dispatch ended, and the message of a SkipBatchException
    pre,        \* index and wells as they were when the last dispatch started
    finished,   \* the tasks of the last dispatch, in the order they finished
    nDispatch,  \* number of dispatches finished
    heap,       \* the Well and WellSegment objects of a tree; the root Well is heap[1]
    lastOp,     \* the last Well method called: its name, argument and outcome
    nOps,       \* number of tree-changing methods called
    held        \* a second root the program keeps (the Well copied or the caller
                \* of a delegated method), 0 if none

bvars == <<index, wells, store, futures, bpc, plan, opKind, outcome, pre, finished,
          nDispatch>>

tvars == <<heap, lastOp, nOps, held>>

vars == <<bvars, tvars>>

\* ------------------------------------------------------------ batch: data
Behaviours == {"ok", "skip", "fail"}
OpKinds == {"inplace", "copy"}

\* References of Well objects. A dispatch allocates the Well its task number i
\* returns at a reference fixed by the dispatch and by i.
NObj == MaxRoots * (MaxDispatch + 1)
ObjAt(d, i) == d * MaxRoots + i

Free == [live |-> FALSE, origin |-> 0, ver |-> 0]
Pending == [kind |-> "pending", obj |-> 0, msg |-> 0]
Running == [kind |-> "running", obj |-> 0, msg |-> 0]
NoOutcome == [kind |-> "none", msg |-> 0]

\* ------------------------------------------------------- batch: operations
\* The identifiers of a set, in increasing (up) or decreasing order.
RECURSIVE SeqOfSet(_, _)
SeqOfSet(S, up) ==
    IF S = {} THEN <<>>
    ELSE LET x == CHOOSE y \in S : \A z \in S : IF up THEN y <= z ELSE y >= z
         IN  <<x>> \o SeqOfSet(S \ {x}, up)

\* The indices a batch is created with: the identifiers of a non-empty part of
\* the dataset 1..MaxRoots, without duplicates.
BatchIndices ==
    {SeqOfSet(S, up) : S \in (SUBSET (1..MaxRoots)) \ {{}}, up \in BOOLEAN}

\* WellBatch.__init__: one Well per identifier of the index, in index order.
BatchInit(ids) ==
    /\ index = ids
    /\ wells = [i \in 1..Len(ids) |-> ObjAt(0, ids[i])]
    /\ store = [o \in 1..NObj |->
                  IF \E i \in 1..Len(ids) : ids[i] = o
                  THEN [live |-> TRUE, origin |-> o, ver |-> 0] ELSE Free]

\* What the delegator returns for task i: the result of the Well method called on
\* that task's own well.  A node-level method (crop, ...) changes the well in place
\* and returns it; a delegated segment method returns a changed copy.  An
\* exception the method raises is what the future holds.
DelegatorResult(w, i, how, kind, id) ==
    CASE how = "skip" -> [kind |-> "skip", obj |-> 0, msg |-> id]
      [] how = "fail" -> [kind |-> "fail", obj |-> 0, msg |-> id]
      [] OTHER -> [kind |-> "ok",
                   obj |-> IF kind = "inplace" THEN w ELSE ObjAt(nDispatch + 1, i),
                   msg |-> 0]

\* A method that would change every Well of the batch, not the one it is
\* called on.
DelegatorStoreAll(st, w, i, how, kind) ==
    IF how # "ok" THEN st
    ELSE [o \in 1..NObj |-> IF st[o].live THEN [st[o] EXCEPT !.ver = @ + 1] ELSE st[o]]

\* The Well objects after task i ran the method on well w.
DelegatorStore(st, w, i, how, kind) ==
    IF how # "ok" THEN st
    ELSE IF kind = "inplace"
         THEN [st EXCEPT ![w].ver = @ + 1]
         ELSE [st EXCEPT ![ObjAt(nDispatch + 1, i)] =
                   [live |-> TRUE, origin |-> st[w].origin, ver |-> st[w].ver + 1]]

\* skip_mask = [isinstance(res, SkipWellException) for res in results]
SkipMask(results) == [i \in 1..Len(results) |-> results[i].kind = "skip"]

\* seq[~mask]: the elements whose mask is False, in order.
RECURSIVE MaskOut(_, _)
MaskOut(seq, mask) ==
    IF Len(seq) = 0 THEN <<>>
    ELSE IF Head(mask) THEN MaskOut(Tail(seq), Tail(mask))
         ELSE <<Head(seq)>> \o MaskOut(Tail(seq), Tail(mask))

\* sum(skip_mask)
RECURSIVE SumMask(_)
SumMask(mask) ==
    IF Len(mask) = 0 THEN 0 ELSE (IF Head(mask) THEN 1 ELSE 0) + SumMask(Tail(mask))

\* batchflow's any_action_failed: some result is an exception.
AnyActionFailed(results) == \E i \in 1..Len(results) : results[i].kind # "ok"

\* DatasetIndex.create_subset: the index of the given identifiers, in their order.
CreateSubset(ids) == ids

\* WellBatch._filter_assemble(results): the outcome, and the index and wells it
\* leaves in the batch.
FilterAssembleNoSubset(results) ==
    LET skip_mask == SkipMask(results)
        rest == MaskOut(results, skip_mask)
    IN  IF SumMask(skip_mask) = Len(index)
        THEN [outcome |-> [kind |-> "skip_batch", msg |-> results[1].msg],
              index |-> index, wells |-> wells]
        ELSE IF AnyActionFailed(rest)
        THEN [outcome |-> [kind |-> "fatal", msg |-> 0],
              index |-> index, wells |-> wells]
        ELSE [outcome |-> [kind |-> "ok", msg |-> 0],
              index |-> index,
              wells |-> [j \in 1..Len(rest) |-> rest[j].obj]]

FilterAssembleCommitFirst(results) ==
    LET skip_mask == SkipMask(results)
        rest == MaskOut(results, skip_mask)
    IN  IF SumMask(skip_mask) = Len(index)
        THEN [outcome |-> [kind |-> "skip_batch", msg |-> results[1].msg],
              index |-> index, wells |-> wells]
        ELSE IF AnyActionFailed(rest)
        THEN [outcome |-> [kind |-> "fatal", msg |-> 0],
              index |-> CreateSubset(MaskOut(index, skip_mask)), wells |-> wells]
        ELSE [outcome |-> [kind |-> "ok", msg |-> 0],
              index |-> CreateSubset(MaskOut(index, skip_mask)),
              wells |-> [j \in 1..Len(rest) |-> rest[j].obj]]

FilterAssembleLastMsg(results) ==
    LET skip_mask == SkipMask(results)
        rest == MaskOut(results, skip_mask)
    IN  IF SumMask(skip_mask) = Len(index)
        THEN [outcome |-> [kind |-> "skip_batch", msg |-> results[Len(results)].msg],
              index |-> index, wells |-> wells]
        ELSE IF AnyActionFailed(rest)
        THEN [outcome |-> [kind |-> "fatal", msg |-> 0],
              index |-> index, wells |-> wells]
        ELSE [outcome |-> [kind |-> "ok", msg |-> 0],
              index |-> CreateSubset(MaskOut(index, skip_mask)),
              wells |-> [j \in 1..Len(rest) |-> rest[j].obj]]

FilterAssemble(results) ==
    LET skip_mask == SkipMask(results)
        rest == MaskOut(results, skip_mask)
    IN  IF SumMask(skip_mask) = Len(index)
        THEN [outcome |-> [kind |-> "skip_batch", msg |-> results[1].msg],
              index |-> index, wells |-> wells]
        ELSE IF AnyActionFailed(rest)
        THEN [outcome |-> [kind |-> "fatal", msg |-> 0],
              index |-> index, wells |-> wells]
        ELSE [outcome |-> [kind |-> "ok", msg |-> 0],
              index |-> CreateSubset(MaskOut(index, skip_mask)),
              wells |-> [j \in 1..Len(rest) |-> rest[j].obj]]

\* -------------------------------------------------------- batch: actions
\* The well a task works on: inbatch_parallel(init="wells") hands task i the
\* i-th element of self.wells.
TaskWellFirst(i) == wells[1]

TaskWellByCompletion(i) == wells[1 + Len(finished)]

TaskWell(i) == wells[i]

\* A batch method is called: inbatch_parallel submits one task per well.
Dispatch ==
    /\ bpc = "idle"
    /\ nDispatch < MaxDispatch
    /\ \E p \in [1..Len(wells) -> Behaviours], k \in OpKinds :
          /\ plan' = p
          /\ opKind' = k
    /\ futures' = [i \in 1..Len(wells) |-> Pending]
    /\ pre' = [index |-> index, wells |-> wells, store |-> store]
    /\ outcome' = NoOutcome
    /\ finished' = <<>>
    /\ bpc' = "running"
    /\ UNCHANGED <<index, wells, store, nDispatch>>
    /\ UNCHANGED tvars

\* A pool thread picks up task i.
TaskStart(i) ==
    /\ bpc = "running"
    /\ futures[i].kind = "pending"
    /\ futures' = [futures EXCEPT ![i] = Running]
    /\ UNCHANGED <<index, wells, store, bpc, plan, opKind, outcome, pre, finished,
                   nDispatch>>
    /\ UNCHANGED tvars

\* Task i runs the delegator on its well and its future gets the result.
TaskFinish(i) ==
    /\ bpc = "running"
    /\ futures[i].kind = "running"
    /\ futures' = [futures EXCEPT
                     ![i] = DelegatorResult(TaskWell(i), i, plan[i], opKind, index[i])]
    /\ store' = DelegatorStore(store, TaskWell(i), i, plan[i], opKind)
    /\ finished' = Append(finished, i)
    /\ UNCHANGED <<index, wells, bpc, plan, opKind, outcome, pre, nDispatch>>
    /\ UNCHANGED tvars

\* What inbatch_parallel hands the post function: every task's result (or the
\* exception it raised), in task order.
PostResults == futures

\* All tasks are done: the post function _filter_assemble is called once.
Post ==
    /\ bpc = "running"
    /\ \A i \in 1..Len(futures) : futures[i].kind \in {"ok", "skip", "fail"}
    /\ LET r == FilterAssemble(PostResults)
       IN  /\ outcome' = r.outcome
           /\ index' = r.index
           /\ wells' = r.wells
    /\ bpc' = "idle"
    /\ nDispatch' = nDispatch + 1
    /\ UNCHANGED <<store, futures, plan, opKind, pre, finished>>
    /\ UNCHANGED tvars

InitBatch ==
    /\ \E ids \in BatchIndices : BatchInit(ids)
    /\ futures = <<>>
    /\ bpc = "idle"
    /\ plan = <<>>
    /\ opKind = "inplace"
    /\ outcome = NoOutcome
    /\ pre = [index |-> <<>>, wells |-> <<>>, store |-> <<>>]
    /\ finished = <<>>
    /\ nDispatch = 0

NextBatch ==
    \/ Dispatch
    \/ \E i \in 1..Len(futures) : TaskStart(i)
    \/ \E i \in 1..Len(futures) : TaskFinish(i)
    \/ Post


(***************************************************************************)
(* Part 2 models a Well: a tree of Well nodes over WellSegment leaves.      *)
(* The objects live in a heap, a sequence of records addressed by position. *)
(* A Well's segments attribute is a list of references, or, when the Well   *)
(* was built as Well(segments=<a Well>), a reference to that Well (ref);     *)
(* iterating such a Well iterates the Well it refers to.                    *)
(***************************************************************************)

\* ------------------------------------------------------------- tree: data
\* A WellSegment with its depth interval.
LeafObj(f, t) ==
    [leaf |-> TRUE, depth_from |-> f, depth_to |-> t, segments |-> <<>>, ref |-> 0]
\* Well(segments=<list>)
WellObj(list) ==
    [leaf |-> FALSE, depth_from |-> 0, depth_to |-> 0, segments |-> list, ref |-> 0]
\* Well(segments=<the Well z>)
WellRefObj(z) ==
    [leaf |-> FALSE, depth_from |-> 0, depth_to |-> 0, segments |-> <<>>, ref |-> z]

\* A value, or the exception raised instead of it.
Ok(v) == [err |-> "", v |-> v]
Raise(e) == [err |-> e, v |-> <<>>]

\* Well.__iter__: the segments a Well iterates over.
RECURSIVE Items(_, _)
Items(h, n) == IF h[n].ref # 0 THEN Items(h, h[n].ref) ELSE h[n].segments

\* Well._has_segments
HasSegments(h, n) == \A i \in 1..Len(Items(h, n)) : h[Items(h, n)[i]].leaf

\* The values of a list comprehension whose elements evaluated to rs: the
\* exception of the first element that raised, or the list of the values.
Collect(rs) ==
    IF \E i \in 1..Len(rs) : rs[i].err # ""
    THEN Raise(rs[CHOOSE i \in 1..Len(rs) :
                      rs[i].err # "" /\ \A k \in 1..(i - 1) : rs[k].err = ""].err)
    ELSE Ok([i \in 1..Len(rs) |-> rs[i].v])

\* The elements of items whose flag is set, in order.
RECURSIVE KeepWhere(_, _)
KeepWhere(items, flags) ==
    IF Len(items) = 0 THEN <<>>
    ELSE (IF Head(flags) THEN <<Head(items)>> ELSE <<>>)
         \o KeepWhere(Tail(items), Tail(flags))

\* The concatenation of the lists of a list.
RECURSIVE Flatten(_)
Flatten(lists) == IF Len(lists) = 0 THEN <<>> ELSE Head(lists) \o Flatten(Tail(lists))

\* tree_depth read on a WellSegment: a WellSegment has no tree_depth.
LeafTreeDepth == Raise("AttributeError")

\* Well.tree_depth.  self.segments[0] of a Well whose segments is a Well is a
\* TypeError (a Well is not indexable).
TreeDepthPlusOne(d) == IF d.err # "" THEN d ELSE Ok(d.v + 1)

RECURSIVE TreeDepth(_, _)
TreeDepth(h, n) ==
    IF HasSegments(h, n) THEN Ok(2)
    ELSE IF h[n].ref # 0 THEN Raise("TypeError")
    ELSE IF h[h[n].segments[1]].leaf THEN LeafTreeDepth
    ELSE TreeDepthPlusOne(TreeDepth(h, h[n].segments[1]))

\* min(ds) / max(ds); min([]) and max([]) raise ValueError.
MinOf(ds) ==
    IF ds.err # "" THEN ds
    ELSE IF Len(ds.v) = 0 THEN Raise("ValueError")
    ELSE Ok(CHOOSE x \in {ds.v[i] : i \in 1..Len(ds.v)} :
                \A i \in 1..Len(ds.v) : x <= ds.v[i])

MaxOf(ds) ==
    IF ds.err # "" THEN ds
    ELSE IF Len(ds.v) = 0 THEN Raise("ValueError")
    ELSE Ok(CHOOSE x \in {ds.v[i] : i \in 1..Len(ds.v)} :
                \A i \in 1..Len(ds.v) : x >= ds.v[i])

\* depth_from / depth_to of a WellSegment or a Well: min / max over the segments.
RECURSIVE DepthFrom(_, _)
RECURSIVE DepthFromEach(_, _)
DepthFromEach(h, items) ==
    IF Len(items) = 0 THEN <<>>
    ELSE <<DepthFrom(h, Head(items))>> \o DepthFromEach(h, Tail(items))

DepthFrom(h, n) ==
    IF h[n].leaf THEN Ok(h[n].depth_from)
    ELSE MinOf(Collect(DepthFromEach(h, Items(h, n))))

RECURSIVE DepthTo(_, _)
RECURSIVE DepthToEach(_, _)
DepthToEach(h, items) ==
    IF Len(items) = 0 THEN <<>>
    ELSE <<DepthTo(h, Head(items))>> \o DepthToEach(h, Tail(items))

DepthTo(h, n) ==
    IF h[n].leaf THEN Ok(h[n].depth_to)
    ELSE MaxOf(Collect(DepthToEach(h, Items(h, n))))

\* length = depth_to - depth_from
Minus(t, f) == IF t.err # "" THEN t ELSE IF f.err # "" THEN f ELSE Ok(t.v - f.v)

Length(h, n) == Minus(DepthTo(h, n), DepthFrom(h, n))

\* Well.iter_level(level).  The result carries, beside the nodes (v), whether
\* the object returned is a Well rather than a list (raw # 0): level 1 returns
\* self.segments itself.
IterOk(v, raw) == [err |-> "", v |-> v, raw |-> raw]
IterRaise(e) == [err |-> e, v |-> <<>>, raw |-> 0]

\* iter_level called on a WellSegment: a WellSegment has no iter_level.
LeafIterLevel == IterRaise("AttributeError")

\* [item for well in self for item in well.iter_level(level - 1)], the calls
\* of iter_level having evaluated to rs.
IterFlatten(lists) ==
    IF lists.err # "" THEN IterRaise(lists.err) ELSE IterOk(Flatten(lists.v), 0)

IterConcat(rs) == IterFlatten(Collect(rs))

RECURSIVE IterLevel(_, _, _)
RECURSIVE IterLevelEach(_, _, _)
IterLevelEach(h, items, lvl) ==
    IF Len(items) = 0 THEN <<>>
    ELSE <<IF h[Head(items)].leaf THEN LeafIterLevel ELSE IterLevel(h, Head(items), lvl)>>
         \o IterLevelEach(h, Tail(items), lvl)

IterLevelAt(h, n, lvl, td) ==
    IF lvl < 0 \/ lvl > td THEN IterRaise("InvalidLevel")
    ELSE IF lvl = 0 THEN IterOk(<<n>>, 0)
    ELSE IF lvl = 1 THEN IterOk(Items(h, n), h[n].ref)
    ELSE IterConcat(IterLevelEach(h, Items(h, n), lvl - 1))

IterLevelOf(h, n, level, td) ==
    IF td.err # "" THEN IterRaise(td.err)
    ELSE IterLevelAt(h, n, IF level >= 0 THEN level ELSE td.v + level, td.v)

IterLevel(h, n, level) == IterLevelOf(h, n, level, TreeDepth(h, n))

\* Well.n_segments = len(self.iter_level()); len() of a Well is a TypeError.
LenOf(r) ==
    IF r.err # "" THEN Raise(r.err)
    ELSE IF r.raw # 0 THEN Raise("TypeError")
    ELSE Ok(Len(r.v))

NSegments(h, n) == LenOf(IterLevel(h, n, -1))

\* The state of the heap an operation leaves, and the exception it raised.
Returns(h) == [err |-> "", h |-> h]
Raises(e, h) == [err |-> e, h |-> h]

\* Well.prune(): keep the WellSegments and the Wells with n_segments > 0, then
\* prune the Wells kept, in order.
PruneKeepWhere(items, ns) ==
    IF ns.err # "" THEN ns
    ELSE Ok(KeepWhere(items, [i \in 1..Len(items) |-> ns.v[i] > 0]))

\* isinstance(well, WellSegment) or well.n_segments > 0, for each well of items.
RECURSIVE NSegmentsEach(_, _)
NSegmentsEach(h, items) ==
    IF Len(items) = 0 THEN <<>>
    ELSE <<IF h[Head(items)].leaf THEN Ok(1) ELSE NSegments(h, Head(items))>>
         \o NSegmentsEach(h, Tail(items))

PruneKeep(h, items) == PruneKeepWhere(items, Collect(NSegmentsEach(h, items)))

RECURSIVE Prune(_, _)
RECURSIVE PruneEach(_, _, _)
PruneNext(r, items, i) == IF r.err # "" THEN r ELSE PruneEach(r.h, items, i + 1)

PruneEach(h, items, i) ==
    IF i > Len(items) THEN Returns(h)
    ELSE IF h[items[i]].leaf THEN PruneEach(h, items, i + 1)
    ELSE PruneNext(Prune(h, items[i]), items, i)

PruneKept(h, n, kept) ==
    IF kept.err # "" THEN Raises(kept.err, h)
    ELSE PruneEach([h EXCEPT ![n].segments = kept.v, ![n].ref = 0], kept.v, 1)

Prune(h, n) == PruneKept(h, n, PruneKeep(h, Items(h, n)))

\* --------------------------------------------------- tree: leaf operations
\* WellSegment.crop / create_segments / drop_nans: a list of k new segments, here
\* the k consecutive parts of the segment's depth interval.
LeafPieces(f, t, k) ==
    [i \in 1..k |-> LeafObj(f + ((i - 1) * (t - f)) \div k, f + (i * (t - f)) \div k)]

\* WellSegment.random_crop(length, c): a list of c new segments taken from the
\* segment's depth interval.
LeafRandomCrop(f, t, c) == [i \in 1..c |-> LeafObj(f, t)]

\* The references the objects appended to a heap of size n get.
NewRefs(n, k) == [i \in 1..k |-> n + i]

\* How many segments the segment-level method returns for segment c.
FanOf(fan, c) == IF c \in DOMAIN fan THEN fan[c] ELSE 1

\* The heap h with the Well over the segments just created appended.
WithNewWell(h, segs) == Append(h \o segs, WellObj(NewRefs(Len(h), Len(segs))))

\* ------------------------------------- tree: create_segments, crop, drop_nans
\* The three methods share their body: for every Well of iter_level(-2),
\*   well.segments = [Well(segments=segment.<method>(...)) for segment in well]
\* and drop_nans ends with self.prune() (pr).  A segment that is itself a Well
\* runs the Well's method, which returns that Well.
RECURSIVE Wrap(_, _, _, _)
RECURSIVE WrapWells(_, _, _, _, _)
RECURSIVE WrapItems(_, _, _, _, _)

\* The list whose first element is the new Well new and whose other elements
\* evaluated to rest.
WrapPrepend(new, rest) ==
    IF rest.err # "" THEN rest
    ELSE [err |-> "", h |-> rest.h, out |-> <<new>> \o rest.out]

WrapLeaf(h2, items, fan, pr, j) ==
    WrapPrepend(Len(h2), WrapItems(h2, items, fan, pr, j + 1))

WrapWell(r, c, items, fan, pr, j) ==
    IF r.err # "" THEN [err |-> r.err, h |-> r.h, out |-> <<>>]
    ELSE WrapLeaf(Append(r.h, WellRefObj(c)), items, fan, pr, j)

WrapItems(h, items, fan, pr, j) ==
    IF j > Len(items) THEN [err |-> "", h |-> h, out |-> <<>>]
    ELSE IF h[items[j]].leaf
         THEN WrapLeaf(WithNewWell(h, LeafPieces(h[items[j]].depth_from,
                                                 h[items[j]].depth_to,
                                                 FanOf(fan, items[j]))),
                       items, fan, pr, j)
         ELSE WrapWell(Wrap(h, items[j], fan, pr), items[j], items, fan, pr, j)

WrapAssign(r, parents, fan, pr, i) ==
    IF r.err # "" THEN Raises(r.err, r.h)
    ELSE WrapWells([r.h EXCEPT ![parents[i]].segments = r.out, ![parents[i]].ref = 0],
                   parents, fan, pr, i + 1)

WrapWells(h, parents, fan, pr, i) ==
    IF i > Len(parents) THEN Returns(h)
    ELSE IF h[parents[i]].leaf THEN Raises("TypeError", h)
    ELSE WrapAssign(WrapItems(h, Items(h, parents[i]), fan, pr, 1), parents, fan, pr, i)

WrapReturn(r, n, pr) == IF r.err # "" \/ ~pr THEN r ELSE Prune(r.h, n)

WrapLevel(h, n, fan, pr, parents) ==
    IF parents.err # "" THEN Raises(parents.err, h)
    ELSE WrapReturn(WrapWells(h, parents.v, fan, pr, 1), n, pr)

Wrap(h, n, fan, pr) == WrapLevel(h, n, fan, pr, IterLevel(h, n, -2))

\* ------------------------------------------------ tree: drop_short_segments
\* [segment.length for segment in well]
RECURSIVE LengthEach(_, _)
LengthEach(h, items) ==
    IF Len(items) = 0 THEN <<>>
    ELSE <<Length(h, Head(items))>> \o LengthEach(h, Tail(items))

Lengths(h, items) == Collect(LengthEach(h, items))

\* well.segments = [segment for segment in well if segment.length > min_length]
\* for every Well of iter_level(-2), then self.prune().
ShortItemsWhere(items, min_length, ls) ==
    IF ls.err # "" THEN ls
    ELSE Ok(KeepWhere(items, [j \in 1..Len(items) |-> ls.v[j] > min_length]))

ShortItems(h, items, min_length) ==
    ShortItemsWhere(items, min_length, Lengths(h, items))

RECURSIVE ShortWells(_, _, _, _)
ShortAssign(h, kept, parents, min_length, i) ==
    IF kept.err # "" THEN Raises(kept.err, h)
    ELSE ShortWells([h EXCEPT ![parents[i]].segments = kept.v, ![parents[i]].ref = 0],
                    parents, min_length, i + 1)

ShortWells(h, parents, min_length, i) ==
    IF i > Len(parents) THEN Returns(h)
    ELSE IF h[parents[i]].leaf THEN Raises("TypeError", h)
    ELSE ShortAssign(h, ShortItems(h, Items(h, parents[i]), min_length),
                     parents, min_length, i)

ShortReturn(r, n) == IF r.err # "" THEN r ELSE Prune(r.h, n)

ShortLevel(h, n, min_length, parents) ==
    IF parents.err # "" THEN Raises(parents.err, h)
    ELSE ShortReturn(ShortWells(h, parents.v, min_length, 1), n)

DropShortSegments(h, n, min_length) ==
    ShortLevel(h, n, min_length, IterLevel(h, n, -2))

\* ------------------------------------------------------- tree: random_crop
\* The outcome of the sampling is given by draws: for each of the n_crops
\* crops, the WellSegment it finally falls into.  Stage 1 gives a Well of
\* iter_level(-2) as many crops as draws fall below it, stage 2 gives each of
\* its segments as many as fall below that segment.
RECURSIVE Under(_, _, _)
Under(h, c, l) ==
    \/ c = l
    \/ /\ ~h[c].leaf
       /\ \E j \in 1..Len(Items(h, c)) : Under(h, Items(h, c)[j], l)

UnderWell(h, w, l) == \E j \in 1..Len(Items(h, w)) : Under(h, Items(h, w)[j], l)

RECURSIVE SumSeq(_)
SumSeq(q) == IF Len(q) = 0 THEN 0 ELSE Head(q) + SumSeq(Tail(q))

\* p = [sum([segment.length for segment in item]) for item in parents]
SumOf(ls) == IF ls.err # "" THEN ls ELSE Ok(SumSeq(ls.v))

RECURSIVE WeightEach(_, _)
WeightEach(h, parents) ==
    IF Len(parents) = 0 THEN <<>>
    ELSE <<IF h[Head(parents)].leaf THEN Raise("TypeError")
           ELSE SumOf(Lengths(h, Items(h, Head(parents))))>>
         \o WeightEach(h, Tail(parents))

Weights(h, parents) == Collect(WeightEach(h, parents))

\* The segments of items that draws fall below, in the order of their first
\* draw: the keys of Counter(np.random.choice(...)).
RECURSIVE FirstDrawn(_, _, _, _)
FirstDrawn(h, items, draws, seen) ==
    IF Len(draws) = 0 THEN <<>>
    ELSE LET c == CHOOSE x \in {items[j] : j \in 1..Len(items)} : Under(h, x, Head(draws))
         IN  IF c \in seen THEN FirstDrawn(h, items, Tail(draws), seen)
             ELSE <<c>> \o FirstDrawn(h, items, Tail(draws), seen \cup {c})

\* draws is an outcome np.random.choice can give: every draw falls below a
\* segment of positive length of a Well of positive weight.
CanDraw(h, parents, weights, draws) ==
    \A k \in 1..Len(draws) :
        \E i \in 1..Len(parents) :
            /\ weights[i] > 0
            /\ \E j \in 1..Len(Items(h, parents[i])) :
                  /\ Under(h, Items(h, parents[i])[j], draws[k])
                  /\ Length(h, Items(h, parents[i])[j]).v > 0

RcOk(h) == [err |-> "", h |-> h, valid |-> TRUE]
RcRaise(e, h) == [err |-> e, h |-> h, valid |-> TRUE]
RcInvalid(h) == [err |-> "", h |-> h, valid |-> FALSE]

RECURSIVE RandomCrop(_, _, _)
RECURSIVE RandomCropWells(_, _, _, _)
RECURSIVE RandomCropItems(_, _, _, _)

\* The list whose first element is the new Well new and whose other elements
\* evaluated to rest.
RcPrepend(new, rest) ==
    IF rest.err # "" \/ ~rest.valid THEN rest
    ELSE [rest EXCEPT !.out = <<new>> \o @]

RcLeaf(h2, order, draws, j) ==
    RcPrepend(Len(h2), RandomCropItems(h2, order, draws, j + 1))

RcWell(r, c, order, draws, j) ==
    IF r.err # "" \/ ~r.valid
    THEN [err |-> r.err, h |-> r.h, valid |-> r.valid, out |-> <<>>]
    ELSE RcLeaf(Append(r.h, WellRefObj(c)), order, draws, j)

\* Stage 2: Well(segments=segment.random_crop(length, n_segment_crops)) for the
\* segments drawn, each with the number of draws that fall below it.
RandomCropItems(h, order, draws, j) ==
    IF j > Len(order) THEN [err |-> "", h |-> h, valid |-> TRUE, out |-> <<>>]
    ELSE IF h[order[j]].leaf
         THEN RcLeaf(WithNewWell(h, LeafRandomCrop(
                                        h[order[j]].depth_from, h[order[j]].depth_to,
                                        Len(SelectSeq(draws, LAMBDA l : order[j] = l)))),
                     order, draws, j)
         ELSE RcWell(RandomCrop(h, order[j],
                                SelectSeq(draws, LAMBDA l : Under(h, order[j], l))),
                     order[j], order, draws, j)

RcAssign(h, r, parents, draws, i) ==
    IF r.err # "" THEN RcRaise(r.err, r.h)
    ELSE IF ~r.valid THEN RcInvalid(h)
    ELSE RandomCropWells([r.h EXCEPT ![parents[i]].segments = r.out, ![parents[i]].ref = 0],
                         parents, draws, i + 1)

RcDrawn(h, w, dw, ls, parents, draws, i) ==
    IF Len(dw) = 0
    THEN RandomCropWells([h EXCEPT ![w].segments = <<>>, ![w].ref = 0],
                         parents, draws, i + 1)
    ELSE IF ls.err # "" THEN RcRaise(ls.err, h)
    ELSE IF h[w].ref # 0 THEN RcRaise("ValueError", h)
    ELSE RcAssign(h, RandomCropItems(h, FirstDrawn(h, Items(h, w), dw, {}), dw, 1),
                  parents, draws, i)

\* Stage 1: the Wells of iter_level(-2) in order, each with its draws.
RandomCropWells(h, parents, draws, i) ==
    IF i > Len(parents) THEN RcOk(h)
    ELSE RcDrawn(h, parents[i],
                 SelectSeq(draws, LAMBDA l : UnderWell(h, parents[i], l)),
                 Lengths(h, Items(h, parents[i])), parents, draws, i)

RcPruned(q) == [err |-> q.err, h |-> q.h, valid |-> TRUE]

RcReturn(r, n) == IF r.err # "" \/ ~r.valid THEN r ELSE RcPruned(Prune(r.h, n))

RcWeighted(h, n, draws, parents, p) ==
    IF p.err # "" THEN RcRaise(p.err, h)
    ELSE IF SumSeq(p.v) = 0 \/ parents.raw # 0 THEN RcRaise("ValueError", h)
    ELSE IF ~CanDraw(h, parents.v, p.v, draws) THEN RcInvalid(h)
    ELSE RcReturn(RandomCropWells(h, parents.v, draws, 1), n)

RcLevel(h, n, draws, parents) ==
    IF parents.err # "" THEN RcRaise(parents.err, h)
    ELSE RcWeighted(h, n, draws, parents, Weights(h, parents.v))

RandomCrop(h, n, draws) == RcLevel(h, n, draws, IterLevel(h, n, -2))

\* ----------------------------------------------------- tree: the heap
\* The objects reachable from the roots, in depth-first order.
Children(h, x) ==
    IF h[x].leaf THEN <<>> ELSE IF h[x].ref # 0 THEN <<h[x].ref>> ELSE h[x].segments

RECURSIVE Reach(_, _, _)
Reach(h, todo, seen) ==
    IF Len(todo) = 0 THEN seen
    ELSE IF \E i \in 1..Len(seen) : seen[i] = Head(todo)
         THEN Reach(h, Tail(todo), seen)
         ELSE Reach(h, Children(h, Head(todo)) \o Tail(todo), Append(seen, Head(todo)))

\* The heap without the objects no root reaches, the others renumbered in
\* depth-first order: references carry no meaning beyond identity.
Canon(h, roots) ==
    LET order == Reach(h, roots, <<>>)
        pos(x) == CHOOSE i \in 1..Len(order) : order[i] = x
    IN  [i \in 1..Len(order) |->
            LET o == h[order[i]]
            IN  [o EXCEPT !.segments = [j \in 1..Len(o.segments) |-> pos(o.segments[j])],
                          !.ref = IF o.ref = 0 THEN 0 ELSE pos(o.ref)]]

\* The position Canon(h, roots) gives the object x.
CanonPos(h, roots, x) ==
    CHOOSE i \in 1..Len(Reach(h, roots, <<>>)) : Reach(h, roots, <<>>)[i] = x

\* The tree below the root x by itself; nothing when there is no such root.
TreeOf(h, x) == IF x = 0 THEN <<>> ELSE Canon(h, <<x>>)

\* The WellSegments below n as depth intervals, left to right.
RECURSIVE LeavesOf(_, _)
RECURSIVE LeavesOfEach(_, _)
LeavesOfEach(h, items) ==
    IF Len(items) = 0 THEN <<>>
    ELSE LeavesOf(h, Head(items)) \o LeavesOfEach(h, Tail(items))

LeavesOf(h, n) ==
    IF h[n].leaf THEN <<<<h[n].depth_from, h[n].depth_to>>>>
    ELSE LeavesOfEach(h, Items(h, n))

\* ------------------------------------------- tree: delegated methods, copy
\* What a WellSegment method that Well does not implement returns for the
\* segment c: one new segment (single) or a list of new segments.
LeafResult(h, c, fan, single) ==
    LeafPieces(h[c].depth_from, h[c].depth_to, IF single THEN 1 ELSE FanOf(fan, c))

\* copy(self): a new Well with the attributes of n, its segments included.
Copy(h, n) == [h |-> Append(h, h[n]), ref |-> Len(h) + 1]

\* The delegator _make_delegator creates:
\*   results = []
\*   for segment in self: results.extend(<list of> segment.<name>(...))
\*   res_well = self.copy(); res_well.segments = results; return res_well
RECURSIVE Delegator(_, _, _, _)
RECURSIVE DelegateItems(_, _, _, _, _)
DelegateExtend(refs, rest) == [h |-> rest.h, out |-> refs \o rest.out]

DelegateLeaf(h, segs, items, fan, single, j) ==
    DelegateExtend(NewRefs(Len(h), Len(segs)),
                   DelegateItems(h \o segs, items, fan, single, j + 1))

DelegateWell(r, items, fan, single, j) ==
    DelegateExtend(<<r.ref>>, DelegateItems(r.h, items, fan, single, j + 1))

DelegateItems(h, items, fan, single, j) ==
    IF j > Len(items) THEN [h |-> h, out |-> <<>>]
    ELSE IF h[items[j]].leaf
         THEN DelegateLeaf(h, LeafResult(h, items[j], fan, single), items, fan, single, j)
         ELSE DelegateWell(Delegator(h, items[j], fan, single), items, fan, single, j)

DelegatorReturnSelf(n, r) ==
    [h |-> [r.h EXCEPT ![n].segments = r.out, ![n].ref = 0], ref |-> n]

DelegatorReturn(n, r) ==
    [h |-> [Copy(r.h, n).h EXCEPT ![Copy(r.h, n).ref].segments = r.out,
                                  ![Copy(r.h, n).ref].ref = 0],
     ref |-> Copy(r.h, n).ref]

Delegator(h, n, fan, single) ==
    DelegatorReturn(n, DelegateItems(h, Items(h, n), fan, single, 1))

\* ---------------------------------------------------------- tree: actions
\* The WellSegments the heap holds.
LeafIds(h) == {i \in 1..Len(h) : h[i].leaf}

\* The sum of the lengths of the WellSegments of the tree.
RECURSIVE TotalLeafLength(_, _)
TotalLeafLength(h, i) ==
    IF i > Len(h) THEN 0
    ELSE (IF h[i].leaf THEN h[i].depth_to - h[i].depth_from ELSE 0)
         + TotalLeafLength(h, i + 1)

NoResult == IterRaise("")

\* Well.__init__(path): a Well over the single WellSegment loaded from path.
InitTree ==
    /\ heap = <<WellObj(<<2>>), LeafObj(0, InitLength)>>
    /\ lastOp = [name |-> "init", err |-> "", arg |-> 0, preDepth |-> Ok(2),
                 prePositive |-> TRUE, res |-> NoResult,
                 preLeaves |-> <<>>, preHeld |-> <<>>, made |-> "init"]
    /\ nOps = 0
    /\ held = 0

\* The roots the program keeps: the Well the methods are called on and the
\* held one, if any.
Roots == IF held = 0 THEN <<1>> ELSE <<1, held>>

\* A method was called on the root and left the heap r.h, raising r.err if not "".
MethodCalled(name, arg, r) ==
    /\ nOps < MaxOps
    /\ Cardinality(LeafIds(Canon(r.h, Roots))) <= MaxLeaves
    /\ heap' = Canon(r.h, Roots)
    /\ held' = IF held = 0 THEN 0 ELSE CanonPos(r.h, Roots, held)
    /\ lastOp' = [name |-> name, err |-> r.err, arg |-> arg,
                  preDepth |-> TreeDepth(heap, 1),
                  prePositive |-> TotalLeafLength(heap, 1) > 0,
                  res |-> NoResult,
                  preLeaves |-> LeavesOf(heap, 1), preHeld |-> TreeOf(heap, held),
                  made |-> lastOp.made]
    /\ nOps' = nOps + 1
    /\ UNCHANGED bvars

\* A method returned the new Well r.ref, which the program goes on with; it
\* keeps the Well the method was called on as the held one.  made records
\* the method that made the root.
NewRootReturned(name, arg, r) ==
    /\ nOps < MaxOps
    /\ Cardinality(LeafIds(Canon(r.h, <<r.ref, 1>>))) <= MaxLeaves
    /\ heap' = Canon(r.h, <<r.ref, 1>>)
    /\ held' = CanonPos(r.h, <<r.ref, 1>>, 1)
    /\ lastOp' = [name |-> name, err |-> "", arg |-> arg,
                  preDepth |-> TreeDepth(heap, 1),
                  prePositive |-> TotalLeafLength(heap, 1) > 0,
                  res |-> NoResult,
                  preLeaves |-> LeavesOf(heap, 1), preHeld |-> TreeOf(heap, 1),
                  made |-> name]
    /\ nOps' = nOps + 1
    /\ UNCHANGED bvars

\* The WellSegments of the Well the methods are called on.
RootLeafIds == {l \in LeafIds(heap) : Under(heap, 1, l)}

\* The numbers of segments the segment-level method may return for each segment.
Fans == [RootLeafIds -> 0..MaxFan]

\* res = w.<name>(...) for a method the delegator implements.
DelegatedCall ==
    \E fan \in Fans : \E single \in BOOLEAN :
        NewRootReturned("delegated", 0, Delegator(heap, 1, fan, single))

\* c = w.copy()
CopyCall == NewRootReturned("copy", 0, Copy(heap, 1))

CreateSegments ==
    \E fan \in Fans : MethodCalled("create_segments", 0, Wrap(heap, 1, fan, FALSE))

Crop ==
    \E fan \in Fans : MethodCalled("crop", 0, Wrap(heap, 1, fan, FALSE))

DropNans ==
    \E fan \in Fans : MethodCalled("drop_nans", 0, Wrap(heap, 1, fan, TRUE))

RandomCropCalled(n_crops, r) ==
    /\ r.valid
    /\ MethodCalled("random_crop", n_crops, [err |-> r.err, h |-> r.h])

RandomCropCall ==
    \E n_crops \in 0..MaxCrops :
        \E draws \in [1..n_crops -> LeafIds(heap)] :
            RandomCropCalled(n_crops, RandomCrop(heap, 1, draws))

DropShortSegmentsCall ==
    \E min_length \in 0..InitLength :
        MethodCalled("drop_short_segments", min_length,
                     DropShortSegments(heap, 1, min_length))

PruneCall == MethodCalled("prune", 0, Prune(heap, 1))

\* iter_level(level) is called on the root; it changes nothing.
IterLevelCalled(level, r) ==
    /\ lastOp' = [name |-> "iter_level", err |-> r.err,
                  arg |-> level, preDepth |-> TreeDepth(heap, 1),
                  prePositive |-> TotalLeafLength(heap, 1) > 0,
                  res |-> r,
                  preLeaves |-> LeavesOf(heap, 1), preHeld |-> TreeOf(heap, held),
                  made |-> lastOp.made]
    /\ UNCHANGED <<heap, nOps, held>>
    /\ UNCHANGED bvars

IterLevelCall ==
    \E level \in (0 - MaxLevel)..MaxLevel :
        IterLevelCalled(level, IterLevel(heap, 1, level))

\* A batch and a tree, each as created.
Init == InitBatch /\ InitTree

\* A tree as created, beside a batch of one well that is left alone.
InitOneTree == InitTree /\ InitBatch /\ index = <<1>>

NextTree ==
    \/ CreateSegments
    \/ Crop
    \/ DropNans
    \/ RandomCropCall
    \/ DropShortSegmentsCall
    \/ PruneCall
    \/ IterLevelCall

SpecBatch == Init /\ [][NextBatch]_vars

SpecTree == InitOneTree /\ [][NextTree]_vars

\* The methods that return a new Well, among the methods that shape the tree.
NextShare ==
    \/ DelegatedCall
    \/ CopyCall
    \/ CreateSegments
    \/ Crop
    \/ DropNans
    \/ RandomCropCall
    \/ DropShortSegmentsCall

SpecShare == InitOneTree /\ [][NextShare]_vars

\* The same methods, on a Well no more than MaxDelegateOps calls old.
NextDelegate ==
    \/ nOps < MaxDelegateOps /\ DelegatedCall
    \/ nOps < MaxDelegateOps /\ CopyCall
    \/ nOps < MaxDelegateOps /\ CreateSegments
    \/ nOps < MaxDelegateOps /\ Crop
    \/ nOps < MaxDelegateOps /\ DropNans
    \/ nOps < MaxDelegateOps /\ RandomCropCall
    \/ nOps < MaxDelegateOps /\ DropShortSegmentsCall

SpecDelegate == InitOneTree /\ [][NextDelegate]_vars

\* ========================================================== batch: claims
\* A dispatch has just ended (in success, in a batch-level skip or in the fatal error).
DispatchEnded == bpc = "idle" /\ outcome.kind # "none"

\* Size of the batch when the last dispatch started, and how many of its wells
\* signalled skip or raised another exception.
PreN == Len(pre.index)
NSkip == Cardinality({i \in 1..Len(plan) : plan[i] = "skip"})
NFail == Cardinality({i \in 1..Len(plan) : plan[i] = "fail"})

\* The pre-dispatch positions of the wells that did not signal skip, and the
\* j-th of them in index order.
KeptPos == {i \in 1..Len(plan) : plan[i] # "skip"}
NthKept(j) == CHOOSE i \in KeptPos : Cardinality({k \in KeptPos : k < i}) = j - 1

\* C1: a dispatch over N >= 1 wells in which exactly K < N wells signal skip and
\* none raises another exception returns successfully; the batch then holds N-K
\* wells, its index is the pre-dispatch index without the K skipped identifiers,
\* survivors in their original order, and the well at each position is the result
\* the task of that position's identifier produced.
C1_SkipsDropped ==
    (DispatchEnded /\ NFail = 0 /\ NSkip < PreN) =>
        /\ outcome.kind = "ok"
        /\ Len(index) = PreN - NSkip
        /\ Len(wells) = PreN - NSkip
        /\ \A j \in 1..(PreN - NSkip) :
              /\ index[j] = pre.index[NthKept(j)]
              /\ futures[NthKept(j)].kind = "ok"
              /\ wells[j] = futures[NthKept(j)].obj

\* A dispatch over the wells 3, 2, 1 ended with the middle one skipped and the
\* two others kept.
C1_Witness ==
    /\ DispatchEnded /\ NFail = 0 /\ pre.index = <<3, 2, 1>>
    /\ plan = <<"ok", "skip", "ok">>
    /\ index = <<3, 1>>

\* C2: when at least one well raises a non-skip exception the dispatch ends in
\* the fatal "could not assemble the batch" error and commits nothing: index and
\* wells are what they were before the dispatch, skipped identifiers included.
C2_FatalCommitsNothing ==
    (DispatchEnded /\ NFail >= 1) =>
        /\ outcome.kind = "fatal"
        /\ index = pre.index
        /\ wells = pre.wells

\* A dispatch in which one well failed, one signalled skip and one succeeded
\* ended in the fatal error.
C2_Witness ==
    /\ DispatchEnded /\ outcome.kind = "fatal"
    /\ \E i, j, k \in 1..Len(plan) :
          plan[i] = "fail" /\ plan[j] = "skip" /\ plan[k] = "ok"

\* C3: when every well of a dispatch signals skip the dispatch raises the
\* batch-level skip with the message of the skip of the first well (position 0
\* of the index), no fatal error, and index and wells stay as they were.
C3_AllSkipped ==
    (DispatchEnded /\ NSkip = PreN) =>
        /\ outcome = [kind |-> "skip_batch", msg |-> pre.index[1]]
        /\ index = pre.index
        /\ wells = pre.wells

\* A dispatch over at least two wells, all of which signalled skip, ended.
C3_Witness ==
    /\ DispatchEnded /\ NSkip = PreN /\ PreN >= 2
    /\ outcome.kind = "skip_batch"

SeqOutcomeKind ==
    IF NSkip = PreN THEN "skip_batch" ELSE IF NFail >= 1 THEN "fatal" ELSE "ok"
SeqResultOk(w, i) ==
    /\ store[w].live
    /\ store[w].origin = pre.store[pre.wells[i]].origin
    /\ store[w].ver = pre.store[pre.wells[i]].ver + 1
    /\ opKind = "inplace" => w = pre.wells[i]
    /\ opKind = "copy" => (w # pre.wells[i] /\ store[pre.wells[i]] = pre.store[pre.wells[i]])

\* C5: whatever the order in which the tasks start and finish, a dispatch ends
\* as running the method on the wells one after another in index order would:
\* same outcome, same committed index, and the well at each committed position
\* is the result for the identifier of that position.
C5_OrderIndependent ==
    DispatchEnded =>
        /\ outcome.kind = SeqOutcomeKind
        /\ \A i \in 1..PreN :
              /\ futures[i].kind = plan[i]
              /\ plan[i] = "ok" => SeqResultOk(futures[i].obj, i)
              /\ plan[i] # "ok" => store[pre.wells[i]] = pre.store[pre.wells[i]]
        /\ IF SeqOutcomeKind = "ok"
           THEN /\ Len(index) = PreN - NSkip /\ Len(wells) = PreN - NSkip
                /\ \A j \in 1..(PreN - NSkip) :
                      /\ index[j] = pre.index[NthKept(j)]
                      /\ SeqResultOk(wells[j], NthKept(j))
           ELSE index = pre.index /\ wells = pre.wells

\* A dispatch over three wells ended in success although its tasks finished
\* in the reverse of the index order.
C5_Witness ==
    /\ DispatchEnded /\ outcome.kind = "ok"
    /\ finished = <<3, 2, 1>>
    /\ plan = <<"ok", "skip", "ok">>

\* =========================================================== tree: claims
\* The methods that shape the tree.
ShapingOps == {"create_segments", "crop", "random_crop", "drop_nans", "drop_short_segments"}

\* The Well nodes of the tree.
WellIds(h) == {i \in 1..Len(h) : ~h[i].leaf}

\* The WellSegments below the node n, by the structure of the tree.
LeavesBelow(h, n) == {l \in LeafIds(h) : l # n /\ Under(h, n, l)}

\* The nodes at depth l below n in left-to-right order, by the structure of
\* the tree: n itself at depth 0, its children at depth 1.
RECURSIVE NodesAtLevel(_, _, _)
RECURSIVE NodesAtLevelOf(_, _, _, _)
NodesAtLevelOf(h, items, l, i) ==
    IF i > Len(items) THEN <<>>
    ELSE NodesAtLevel(h, items[i], l) \o NodesAtLevelOf(h, items, l, i + 1)
NodesAtLevel(h, n, l) ==
    IF l = 0 THEN <<n>>
    ELSE IF h[n].leaf THEN <<>>
    ELSE NodesAtLevelOf(h, Items(h, n), l - 1, 1)

\* C6: random_crop(length, n_crops) on a tree of positive total leaf length,
\* reached by any sequence of tree-shaping operations, leaves the tree with
\* exactly n_crops WellSegments, whatever the two sampling stages draw.
C6_RandomCropCount ==
    (lastOp.name = "random_crop" /\ lastOp.prePositive) =>
        Cardinality(LeafIds(heap)) = lastOp.arg

\* C7: prune() is idempotent: right after a prune() on a tree reached by
\* tree-shaping operations, a second prune() changes no node's children.
C7_PruneIdempotent ==
    (lastOp.name = "prune" /\ lastOp.err = "") => Prune(heap, 1) = Returns(heap)

\* C8: after any tree-shaping operation every Well of the tree has a defined
\* depth_from and depth_to, the minimum depth_from and the maximum depth_to of
\* its children, and its depth range encloses that of every segment below it.
C8_DepthRangeDefined ==
    (lastOp.name \in ShapingOps /\ lastOp.err = "") =>
        \A n \in WellIds(heap) :
            /\ DepthFrom(heap, n).err = "" /\ DepthTo(heap, n).err = ""
            /\ \E j \in 1..Len(Items(heap, n)) :
                  DepthFrom(heap, n) = DepthFrom(heap, Items(heap, n)[j])
            /\ \E j \in 1..Len(Items(heap, n)) :
                  DepthTo(heap, n) = DepthTo(heap, Items(heap, n)[j])
            /\ \A l \in LeavesBelow(heap, n) :
                  /\ DepthFrom(heap, n).v <= heap[l].depth_from
                  /\ DepthTo(heap, n).v >= heap[l].depth_to

\* C9: every call of create_segments or crop returns and leaves the root's
\* tree_depth exactly one above what it was before the call, whatever number
\* of segments (none, one, several) the segment-level method returns for each
\* segment.
C9_DepthPlusOne ==
    (lastOp.name \in {"create_segments", "crop"}) =>
        /\ lastOp.err = ""
        /\ lastOp.preDepth.err = ""
        /\ TreeDepth(heap, 1) = Ok(lastOp.preDepth.v + 1)

\* C10: iter_level(level) raises the invalid-level error exactly when
\* level < -tree_depth or level > tree_depth; for every other level it raises
\* nothing and returns the list of the nodes at that level, left to right.
C10_IterLevelRange ==
    (lastOp.name = "iter_level" /\ lastOp.preDepth.err = "") =>
        LET td == lastOp.preDepth.v
            level == lastOp.arg
            lvl == IF level >= 0 THEN level ELSE td + level
        IN  IF level < 0 - td \/ level > td
            THEN lastOp.res.err = "InvalidLevel"
            ELSE /\ lastOp.res.err = ""
                 /\ lastOp.res.raw = 0
                 /\ lastOp.res.v = NodesAtLevel(heap, 1, lvl)

\* The depth intervals of a list of segments.
Intervals(segs) == [i \in 1..Len(segs) |-> <<segs[i].depth_from, segs[i].depth_to>>]

\* The children of a node, each as its kind and the intervals of the
\* WellSegments at or below it.
RECURSIVE ChildrenOf(_, _)
ChildrenOf(h, items) ==
    IF Len(items) = 0 THEN <<>>
    ELSE <<[leaf |-> h[Head(items)].leaf, leaves |-> LeavesOf(h, Head(items))]>>
         \o ChildrenOf(h, Tail(items))

\* What a delegated method must leave below a node of the tree t: below a
\* Well, what it leaves below its children, in order; for a WellSegment,
\* the segments its method returned.
RECURSIVE ExpectLeaves(_, _, _, _)
RECURSIVE ExpectLeavesEach(_, _, _, _)
ExpectLeavesEach(t, items, fan, single) ==
    IF Len(items) = 0 THEN <<>>
    ELSE ExpectLeaves(t, Head(items), fan, single)
         \o ExpectLeavesEach(t, Tail(items), fan, single)

ExpectLeaves(t, n, fan, single) ==
    IF t[n].leaf THEN Intervals(LeafResult(t, n, fan, single))
    ELSE ExpectLeavesEach(t, Items(t, n), fan, single)

\* The children the Well a delegated method returns must have: for each child
\* of the caller in order, the segments its method returned if it is a
\* WellSegment, the one Well its delegator returned if it is a Well.
RECURSIVE ExpectChildren(_, _, _, _)
ExpectChildren(t, items, fan, single) ==
    IF Len(items) = 0 THEN <<>>
    ELSE (IF t[Head(items)].leaf
          THEN [i \in 1..Len(ExpectLeaves(t, Head(items), fan, single)) |->
                   [leaf |-> TRUE,
                    leaves |-> <<ExpectLeaves(t, Head(items), fan, single)[i]>>]]
          ELSE <<[leaf |-> FALSE, leaves |-> ExpectLeaves(t, Head(items), fan, single)]>>)
         \o ExpectChildren(t, Tail(items), fan, single)

\* C11: a delegated method called on a Well returns a Well that is not the
\* caller; its children are the results of the method on the caller's children
\* in their order, flattened (a single result as a list of one); the caller's
\* segments, and its tree, are as before the call.
C11_DelegatorResult ==
    (lastOp.name = "delegated") =>
        /\ lastOp.err = ""
        /\ held # 1
        /\ ~heap[1].leaf /\ heap[1].ref = 0
        /\ TreeOf(heap, held) = lastOp.preHeld
        /\ \E fan \in [LeafIds(lastOp.preHeld) -> 0..MaxFan] : \E single \in BOOLEAN :
              ChildrenOf(heap, Items(heap, 1))
                  = ExpectChildren(lastOp.preHeld, Items(lastOp.preHeld, 1), fan, single)

\* A delegated method was called on a Well over a Well over two WellSegments
\* and returned a Well over a new Well over one new WellSegment, the caller
\* keeping its two.
C11_Witness ==
    /\ lastOp.name = "delegated"
    /\ Len(Items(heap, held)) = 1 /\ Len(Items(heap, 1)) = 1
    /\ ~heap[Items(heap, held)[1]].leaf /\ ~heap[Items(heap, 1)[1]].leaf
    /\ Items(heap, 1)[1] # Items(heap, held)[1]
    /\ Len(LeavesOf(heap, held)) = 2
    /\ Len(LeavesOf(heap, 1)) = 1

\* The methods that end with prune(), and prune itself.
PruningOps == {"prune", "drop_nans", "random_crop", "drop_short_segments"}

\* C12: after prune() returns, also as the last step of drop_nans,
\* random_crop and drop_short_segments, no Well of the tree other than the
\* root is without WellSegments below it, and prune() itself leaves every
\* WellSegment of the tree in place, in the same order.
C12_PruneLeavesNoEmpty ==
    /\ (lastOp.name \in PruningOps /\ lastOp.err = "") =>
           \A n \in WellIds(heap) \ {1} : LeavesOf(heap, n) # <<>>
    /\ (lastOp.name = "prune" /\ lastOp.err = "") =>
           LeavesOf(heap, 1) = lastOp.preLeaves

\* The WellSegments at or below n, left to right.
RECURSIVE LeafSeq(_, _)
RECURSIVE LeafSeqEach(_, _)
LeafSeqEach(h, items) ==
    IF Len(items) = 0 THEN <<>>
    ELSE LeafSeq(h, Head(items)) \o LeafSeqEach(h, Tail(items))

LeafSeq(h, n) == IF h[n].leaf THEN <<n>> ELSE LeafSeqEach(h, Items(h, n))

\* The Wells below n, n included, in which every child is a WellSegment, and
\* those among them with a child.
LeafParents(h, n) ==
    {x \in WellIds(h) : Under(h, n, x) /\ HasSegments(h, x)}

ProperLeafParents(h, n) == {x \in LeafParents(h, n) : Len(Items(h, x)) > 0}

\* The elements of a sequence.
Range(s) == {s[i] : i \in 1..Len(s)}

\* C13: on every tree reached by tree-shaping operations iter_level(-1)
\* returns the WellSegments of the tree, all of them and nothing else, left
\* to right, n_segments is their number, and iter_level(-2) returns the
\* Wells whose children are WellSegments.
C13_IterLevelLeaves ==
    /\ (lastOp.name = "iter_level" /\ lastOp.arg = 0 - 1) =>
           /\ lastOp.res = IterOk(LeafSeq(heap, 1), 0)
           /\ NSegments(heap, 1) = Ok(Len(LeafSeq(heap, 1)))
    /\ (lastOp.name = "iter_level" /\ lastOp.arg = 0 - 2) =>
           /\ lastOp.res.err = "" /\ lastOp.res.raw = 0
           /\ ProperLeafParents(heap, 1) \subseteq Range(lastOp.res.v)
           /\ Range(lastOp.res.v) \subseteq LeafParents(heap, 1)

\* C14: after any sequence of tree-shaping and delegated methods on a Well
\* as created, the segments of every Well is a list, and its elements are
\* all Wells or all WellSegments.
C14_Homogeneous ==
    \A n \in WellIds(heap) :
        /\ heap[n].ref = 0
        /\ \/ \A j \in 1..Len(heap[n].segments) : heap[heap[n].segments[j]].leaf
           \/ \A j \in 1..Len(heap[n].segments) : ~heap[heap[n].segments[j]].leaf

\* The tasks of the dispatch that have not finished.
Unfinished == {i \in 1..Len(futures) : futures[i].kind \in {"pending", "running"}}

\* C15: while a task of a dispatch has not finished, index and wells of the
\* batch are not written; a task changes no Well but the one it was given
\* (or the new Well it returns); index and wells are written only in the step
\* that ends the dispatch, the post function, once every task has finished.
C15_NoSharedWrite ==
    [][/\ (bpc = "running" /\ Unfinished # {}) => (index' = index /\ wells' = wells)
       /\ \A o \in 1..NObj :
              store'[o] # store[o] =>
                  \E i \in Unfinished :
                      /\ futures[i].kind = "running"
                      /\ futures'[i].kind \notin {"pending", "running"}
                      /\ o = wells[i] \/ ~store[o].live
       /\ (index' # index \/ wells' # wells) =>
              (bpc = "running" /\ bpc' = "idle" /\ Unfinished = {})
      ]_vars

C15_Witness ==
    /\ bpc = "running"
    /\ \E i \in 1..Len(futures) : \E j \in Unfinished :
          /\ futures[i].kind = "ok"
          /\ futures[j].kind = "running"
          /\ store[pre.wells[i]] # pre.store[pre.wells[i]]
          /\ store[pre.wells[j]] = pre.store[pre.wells[j]]
    /\ index = pre.index /\ wells = pre.wells

\* C16: when a dispatch of a method that Well implements itself (it works in
\* place and returns self) ends with the fatal assembly error, every Well the
\* batch holds, those whose task succeeded included, is as it was before the
\* dispatch.
C16_FatalLeavesTrees ==
    (DispatchEnded /\ outcome.kind = "fatal" /\ opKind = "inplace") =>
        /\ wells = pre.wells
        /\ \A i \in 1..Len(wells) : store[wells[i]] = pre.store[wells[i]]

\* The intervals of a list that are longer than min_length, in order.
RECURSIVE LongerThan(_, _)
LongerThan(leaves, min_length) ==
    IF Len(leaves) = 0 THEN <<>>
    ELSE (IF Head(leaves)[2] - Head(leaves)[1] > min_length
          THEN <<Head(leaves)>> ELSE <<>>)
         \o LongerThan(Tail(leaves), min_length)

\* C17: drop_short_segments(min_length) leaves in the tree the WellSegments
\* it had that are longer than min_length, all of them and no other, in their
\* order, and the tree_depth of the root is not larger than before the call.
C17_DropShortSegments ==
    (lastOp.name = "drop_short_segments" /\ lastOp.err = "") =>
        /\ LeavesOf(heap, 1) = LongerThan(lastOp.preLeaves, lastOp.arg)
        /\ lastOp.preDepth.err = ""
        /\ TreeDepth(heap, 1).err = ""
        /\ TreeDepth(heap, 1).v <= lastOp.preDepth.v

\* C18: after c = w.copy(), a tree-shaping method called on c leaves the
\* tree of w as it was before the call.
C18_CopyIsolated ==
    (lastOp.name \in ShapingOps /\ lastOp.made = "copy" /\ held # 0) =>
        TreeOf(heap, held) = lastOp.preHeld

==============================================================================
